---- MODULE Spec2Model ----
(***************************************************************************)
(* Model of torchmeta/datasets/helpers_tabular.py: the two entry points    *)
(* covertype and letter and the builder helper_with_default_tabular.       *)
(*                                                                         *)
(* One call is followed from the caller's arguments through the entry      *)
(* point, the default resolution, the construction of the class-selection  *)
(* dataset, the wrapping by ClassSplitter, the seed call and the return.   *)
(* The collaborators (the dataset class, ClassSplitter, the seed mutator,  *)
(* warnings.warn) are recorded by the calls made to them.  warnings.warn   *)
(* is modelled as the call that hands a warning to the warning channel;    *)
(* what the process-wide warnings filter then does with it is not part of  *)
(* this file.                                                              *)
(***************************************************************************)
EXTENDS Integers, Sequences, FiniteSets, TLC

VARIABLES call, failing, pc, frame, warns, log, dataset, result, error, prev

vars == <<call, failing, pc, frame, warns, log, dataset, result, error, prev>>

(***************************************************************************)
(* Bounds of the explored inputs.                                          *)
(***************************************************************************)
MaxWays == 5
MaxShots == 2
MaxSeed == 1

(* `ways > 3` in covertype and letter. *)
SplitClasses == 3

(***************************************************************************)
(* Python values.                                                          *)
(***************************************************************************)
None == [kind |-> "None"]
PyInt(n) == [kind |-> "int", n |-> n]
Obj(name) == [kind |-> "object", name |-> name]
NumpyToTorch == [kind |-> "NumpyToTorch"]
Categorical(num_classes) == [kind |-> "Categorical", num_classes |-> num_classes]

(* dict helpers: a dict is a function from a finite set of keys *)
EmptyDict == [k \in {} |-> None]
Put(d, key, value) == [k \in DOMAIN d \cup {key} |-> IF k = key THEN value ELSE d[k]]
Get(d, key, default) == IF key \in DOMAIN d THEN d[key] ELSE default
Restrict(d, keys) == [k \in keys |-> d[k]]

(***************************************************************************)
(* The caller's arguments.                                                 *)
(***************************************************************************)
DirectKlasses == {"Covertype"}
Folders == {"covertype_task_id_2118"}
ShotsRange == {PyInt(n) : n \in 1..MaxShots}
WaysRange == {PyInt(n) : n \in 1..MaxWays}
OverrideRange == {PyInt(SplitClasses - 1), PyInt(MaxWays)}
TestShotsRange == {None} \cup {PyInt(n) : n \in 0..MaxShots}
SeedRange == {None} \cup {PyInt(n) : n \in 0..MaxSeed}

AllOptions ==
    [k \in {"transform", "target_transform", "class_augmentations",
            "num_classes_per_task", "meta_train"} |->
        CASE k = "transform" -> {Obj("user_transform")}
          [] k = "target_transform" -> {Obj("user_target_transform")}
          [] k = "class_augmentations" -> {Obj("user_augmentations")}
          [] k = "num_classes_per_task" -> OverrideRange
          [] k = "meta_train" -> {Obj("True")}]

KwargsRange ==
    UNION { [keys -> UNION {AllOptions[k] : k \in keys}] : keys \in SUBSET DOMAIN AllOptions }

WellTyped(d) == \A k \in DOMAIN d : d[k] \in AllOptions[k]

ExtraOptions == { d \in KwargsRange : WellTyped(d) }

FullDefaults ==
    [k \in {"transform", "target_transform", "class_augmentations"} |->
        CASE k = "transform" -> Obj("default_transform")
          [] k = "target_transform" -> Obj("default_target_transform")
          [] k = "class_augmentations" -> Obj("default_augmentations")]

DefaultsRange ==
    {None, EmptyDict,
     Restrict(FullDefaults, {"transform", "class_augmentations"}),
     Restrict(FullDefaults, {"target_transform"})}

Args(entry, klass, folder, shots, ways, shuffle, test_shots, seed, defaults, kwargs) ==
    [entry |-> entry, klass |-> klass, folder |-> folder, shots |-> shots,
     ways |-> ways, shuffle |-> shuffle, test_shots |-> test_shots, seed |-> seed,
     defaults |-> defaults, kwargs |-> kwargs]

(* calls of the public entry points: covertype(folder, shots, ways, ...) *)
EntryCalls ==
    { Args(e, "unset", f, s, w, sh, ts, sd, None, kw) :
        e \in {"covertype", "letter"}, f \in Folders, s \in ShotsRange, w \in WaysRange,
        sh \in BOOLEAN, ts \in TestShotsRange, sd \in SeedRange, kw \in ExtraOptions }

(* direct calls of helper_with_default_tabular(klass, folder, shots, ways, ...) *)
HelperCalls ==
    { Args("helper_with_default_tabular", k, f, s, w, sh, ts, sd, d, kw) :
        k \in DirectKlasses, f \in Folders, s \in ShotsRange, w \in WaysRange,
        sh \in BOOLEAN, ts \in TestShotsRange, sd \in SeedRange,
        d \in DefaultsRange, kw \in ExtraOptions }

Calls == EntryCalls \cup HelperCalls

(* The collaborator that raises during this run, if any. *)
Failures == {"none", "klass", "ClassSplitter"}

NoFrame == [active |-> FALSE]
NoValue == [kind |-> "unset"]

FrameOf(c, klass, defaults) ==
    [active |-> TRUE, klass |-> klass, folder |-> c.folder, shots |-> c.shots,
     ways |-> c.ways, shuffle |-> c.shuffle, test_shots |-> c.test_shots,
     seed |-> c.seed, defaults |-> defaults, kwargs |-> c.kwargs]

StartPc(c) == IF c.entry = "helper_with_default_tabular" THEN "resolve" ELSE "entry"
StartFrame(c) ==
    IF c.entry = "helper_with_default_tabular" THEN FrameOf(c, c.klass, c.defaults)
    ELSE NoFrame

Init ==
    /\ call \in Calls
    /\ failing \in Failures
    /\ pc = StartPc(call)
    /\ frame = StartFrame(call)
    /\ warns = <<>>
    /\ log = <<>>
    /\ dataset = NoValue
    /\ result = NoValue
    /\ error = NoValue
    /\ prev = NoValue

(***************************************************************************)
(* covertype and letter: the split-size check, then the delegation.        *)
(***************************************************************************)
SplitSizeWarning(ways) ==
    [kind |-> "split_size", category |-> "UserWarning", stacklevel |-> 1, ways |-> ways]

(* variant: the comparison written as >= *)
EntryWarnings_AtLeast(ways) ==
    IF ways.n >= SplitClasses THEN <<SplitSizeWarning(ways)>> ELSE <<>>

EntryWarnings(ways) ==
    IF ways.n > SplitClasses THEN <<SplitSizeWarning(ways)>> ELSE <<>>

(* variant: the split-size check made on the overriding num_classes_per_task *)
covertype_EffectiveWays ==
    /\ pc = "entry"
    /\ call.entry = "covertype"
    /\ warns' = warns \o EntryWarnings(
            IF "num_classes_per_task" \in DOMAIN call.kwargs
            THEN call.kwargs["num_classes_per_task"] ELSE call.ways)
    /\ frame' = FrameOf(call, "Covertype", None)
    /\ pc' = "resolve"
    /\ UNCHANGED <<call, failing, log, dataset, result, error, prev>>

covertype ==
    /\ pc = "entry"
    /\ call.entry = "covertype"
    /\ warns' = warns \o EntryWarnings(call.ways)
    /\ frame' = FrameOf(call, "Covertype", None)
    /\ pc' = "resolve"
    /\ UNCHANGED <<call, failing, log, dataset, result, error, prev>>

letter ==
    /\ pc = "entry"
    /\ call.entry = "letter"
    /\ warns' = warns \o EntryWarnings(call.ways)
    /\ frame' = FrameOf(call, "Letter", None)
    /\ pc' = "resolve"
    /\ UNCHANGED <<call, failing, log, dataset, result, error, prev>>

(***************************************************************************)
(* helper_with_default_tabular: default resolution.                        *)
(***************************************************************************)
DefaultsMapping(defaults) == IF defaults = None THEN EmptyDict ELSE defaults

WaysIgnoredWarning ==
    [kind |-> "ways_ignored", category |-> "UserWarning", stacklevel |-> 2]

BuilderWarnings(kwargs) ==
    IF "num_classes_per_task" \in DOMAIN kwargs THEN <<WaysIgnoredWarning>> ELSE <<>>

EffectiveWays(ways, kwargs) ==
    IF "num_classes_per_task" \in DOMAIN kwargs THEN kwargs["num_classes_per_task"] ELSE ways

(* variant: the defaults mapping is not consulted *)
WithTransform_NoDefaults(kwargs, defaults) ==
    IF "transform" \notin DOMAIN kwargs
    THEN Put(kwargs, "transform", NumpyToTorch)
    ELSE kwargs

WithTransform(kwargs, defaults) ==
    IF "transform" \notin DOMAIN kwargs
    THEN Put(kwargs, "transform", Get(defaults, "transform", NumpyToTorch))
    ELSE kwargs

WithTargetTransform(kwargs, defaults, ways) ==
    IF "target_transform" \notin DOMAIN kwargs
    THEN Put(kwargs, "target_transform", Get(defaults, "target_transform", Categorical(ways)))
    ELSE kwargs

WithClassAugmentations(kwargs, defaults) ==
    IF "class_augmentations" \notin DOMAIN kwargs
    THEN Put(kwargs, "class_augmentations", Get(defaults, "class_augmentations", None))
    ELSE kwargs

ResolvedKwargs(kwargs, defaults, ways) ==
    WithClassAugmentations(
        WithTargetTransform(WithTransform(kwargs, defaults), defaults, ways), defaults)

(* variant: the default is never substituted *)
ResolvedTestShots_Unset(test_shots, shots) == test_shots

(* variant: `if not test_shots` in place of `if test_shots is None` *)
ResolvedTestShots_Falsy(test_shots, shots) ==
    IF test_shots = None \/ test_shots = PyInt(0) THEN shots ELSE test_shots

ResolvedTestShots(test_shots, shots) == IF test_shots = None THEN shots ELSE test_shots

ResolveDefaults ==
    /\ pc = "resolve"
    /\ LET defaults == DefaultsMapping(frame.defaults)
           ways == EffectiveWays(frame.ways, frame.kwargs)
       IN  /\ warns' = warns \o BuilderWarnings(frame.kwargs)
           /\ frame' = [frame EXCEPT
                  !.defaults = defaults,
                  !.ways = ways,
                  !.kwargs = ResolvedKwargs(frame.kwargs, defaults, ways),
                  !.test_shots = ResolvedTestShots(frame.test_shots, frame.shots)]
    /\ pc' = "construct"
    /\ UNCHANGED <<call, failing, log, dataset, result, error, prev>>

(***************************************************************************)
(* dataset = klass(folder, num_classes_per_task=ways, **kwargs)            *)
(***************************************************************************)
(* An object is named by the call of the log that returned it. *)
Returned(i) == [kind |-> "returned_by", index |-> i]

KlassCall(f) ==
    [op |-> "klass", klass |-> f.klass, folder |-> f.folder,
     num_classes_per_task |-> f.ways, kwargs |-> f.kwargs]

(* a keyword given explicitly and again through **kwargs: the call expression
   raises TypeError before the callee runs *)
DuplicateKeyword(kwargs) == "num_classes_per_task" \in DOMAIN kwargs

Raised(type, by, at) == [kind |-> "raised", type |-> type, by |-> by, at |-> at]

ConstructDuplicateKeyword ==
    /\ pc = "construct"
    /\ DuplicateKeyword(frame.kwargs)
    /\ error' = Raised("TypeError", "helper_with_default_tabular", "construct")
    /\ pc' = "raised"
    /\ UNCHANGED <<call, failing, frame, warns, log, dataset, result, prev>>

ConstructRaises ==
    /\ pc = "construct"
    /\ ~DuplicateKeyword(frame.kwargs)
    /\ failing = "klass"
    /\ log' = Append(log, KlassCall(frame))
    /\ error' = Raised("collaborator", "klass", "construct")
    /\ pc' = "raised"
    /\ UNCHANGED <<call, failing, frame, warns, dataset, result, prev>>

ConstructReturns ==
    /\ pc = "construct"
    /\ ~DuplicateKeyword(frame.kwargs)
    /\ failing # "klass"
    /\ log' = Append(log, KlassCall(frame))
    /\ dataset' = Returned(Len(log) + 1)
    /\ pc' = "wrap"
    /\ UNCHANGED <<call, failing, frame, warns, result, error, prev>>

(***************************************************************************)
(* dataset = ClassSplitter(dataset, shuffle=..., num_train_per_class=...,   *)
(*                         num_test_per_class=...)                         *)
(***************************************************************************)
SplitterCall(f, ds) ==
    [op |-> "ClassSplitter", dataset |-> ds, shuffle |-> f.shuffle,
     num_train_per_class |-> f.shots, num_test_per_class |-> f.test_shots]

WrapRaises ==
    /\ pc = "wrap"
    /\ failing = "ClassSplitter"
    /\ log' = Append(log, SplitterCall(frame, dataset))
    /\ error' = Raised("collaborator", "ClassSplitter", "wrap")
    /\ pc' = "raised"
    /\ UNCHANGED <<call, failing, frame, warns, dataset, result, prev>>

(* variant: the ClassSplitter is built but not bound to `dataset` *)
WrapReturns_Unbound ==
    /\ pc = "wrap"
    /\ failing # "ClassSplitter"
    /\ log' = Append(log, SplitterCall(frame, dataset))
    /\ pc' = "seed"
    /\ UNCHANGED <<call, failing, frame, warns, dataset, result, error, prev>>

WrapReturns ==
    /\ pc = "wrap"
    /\ failing # "ClassSplitter"
    /\ log' = Append(log, SplitterCall(frame, dataset))
    /\ dataset' = Returned(Len(log) + 1)
    /\ pc' = "seed"
    /\ UNCHANGED <<call, failing, frame, warns, result, error, prev>>

(***************************************************************************)
(* dataset.seed(seed); return dataset                                      *)
(***************************************************************************)
(* variant: `seed or 0` *)
SeedCall_ZeroForNone(f, ds) ==
    [op |-> "seed", target |-> ds, seed |-> IF f.seed = None THEN PyInt(0) ELSE f.seed]

SeedCall(f, ds) == [op |-> "seed", target |-> ds, seed |-> f.seed]

(* variant: seeding guarded by a process-wide "already seeded" flag *)
ApplySeed_OncePerProcess ==
    /\ pc = "seed"
    /\ log' = IF prev = NoValue THEN Append(log, SeedCall(frame, dataset)) ELSE log
    /\ pc' = "return"
    /\ UNCHANGED <<call, failing, frame, warns, dataset, result, error, prev>>

ApplySeed ==
    /\ pc = "seed"
    /\ log' = Append(log, SeedCall(frame, dataset))
    /\ pc' = "return"
    /\ UNCHANGED <<call, failing, frame, warns, dataset, result, error, prev>>

Return ==
    /\ pc = "return"
    /\ result' = dataset
    /\ pc' = "done"
    /\ UNCHANGED <<call, failing, frame, warns, log, dataset, error, prev>>

(***************************************************************************)
(* The caller repeats the call with identical arguments; the collaborators *)
(* behave as before.  prev keeps what the earlier call did.                *)
(***************************************************************************)
Outcome == [warns |-> warns, log |-> log, result |-> result, error |-> error]

CallAgain ==
    /\ pc \in {"done", "raised"}
    /\ prev = NoValue
    /\ prev' = Outcome
    /\ pc' = StartPc(call)
    /\ frame' = StartFrame(call)
    /\ warns' = <<>>
    /\ log' = <<>>
    /\ dataset' = NoValue
    /\ result' = NoValue
    /\ error' = NoValue
    /\ UNCHANGED <<call, failing>>

Next ==
    \/ covertype
    \/ letter
    \/ ResolveDefaults
    \/ ConstructDuplicateKeyword
    \/ ConstructRaises
    \/ ConstructReturns
    \/ WrapRaises
    \/ WrapReturns
    \/ ApplySeed
    \/ Return
    \/ CallAgain

Spec == Init /\ [][Next]_vars

(***************************************************************************)
(* Observations used by the properties.                                    *)
(***************************************************************************)
ResolvedKeys == {"transform", "target_transform", "class_augmentations"}
EntryPoints == {"covertype", "letter"}
Collaborators == {"klass", "ClassSplitter"}

HasOverride == "num_classes_per_task" \in DOMAIN call.kwargs
LogOps == [i \in 1..Len(log) |-> log[i].op]
CallsTo(op) == { i \in 1..Len(log) : log[i].op = op }
WarnCount(kind) == Cardinality({ i \in 1..Len(warns) : warns[i].kind = kind })
IsPrefix(s, t) == Len(s) <= Len(t) /\ \A i \in 1..Len(s) : s[i] = t[i]
PastConstruct == pc \in {"wrap", "seed", "return", "done", "raised"}
Resolved == pc \in {"construct", "wrap", "seed", "return", "done", "raised"}

(* the number of classes per task the caller asked for, the override included *)
RequestedWays == IF HasOverride THEN call.kwargs["num_classes_per_task"] ELSE call.ways

(* the defaults mapping the caller handed to the builder, if any *)
GivenDefaults ==
    IF call.entry \in EntryPoints \/ call.defaults = None THEN EmptyDict ELSE call.defaults

FixedFallback(key) ==
    CASE key = "transform" -> NumpyToTorch
      [] key = "target_transform" -> Categorical(RequestedWays)
      [] key = "class_augmentations" -> None

ExpectedOption(key) ==
    IF key \in DOMAIN call.kwargs THEN call.kwargs[key]
    ELSE IF key \in DOMAIN GivenDefaults THEN GivenDefaults[key]
    ELSE FixedFallback(key)

(***************************************************************************)
(* C1: a call that supplies both ways=w1 and num_classes_per_task=w2       *)
(* invokes the class-selection dataset constructor with                    *)
(* num_classes_per_task = w2, hands it Categorical(w2) when                *)
(* target_transform is omitted, and emits exactly one ways-ignored         *)
(* warning.                                                                *)
(***************************************************************************)
C1_OverrideReachesConstructor ==
    (HasOverride /\ PastConstruct) =>
        /\ WarnCount("ways_ignored") = 1
        /\ Cardinality(CallsTo("klass")) = 1
        /\ \A i \in CallsTo("klass") :
              /\ log[i].num_classes_per_task = call.kwargs["num_classes_per_task"]
              /\ log[i].kwargs["target_transform"] = ExpectedOption("target_transform")

(***************************************************************************)
(* C2: warnings never abort: a call that emitted a warning and whose       *)
(* collaborators raise nothing is not aborted, and whatever aborts a call  *)
(* is a collaborator's error, never the builder's own.                     *)
(***************************************************************************)
C2_WarningsNeverAbort ==
    /\ (Len(warns) > 0 /\ failing = "none") => pc # "raised"
    /\ pc = "raised" => error.by \in Collaborators

(***************************************************************************)
(* C3: ClassSplitter is built with num_train_per_class = shots and with    *)
(* num_test_per_class = shots when test_shots is None, the given           *)
(* test_shots otherwise; num_test_per_class is never None.                 *)
(***************************************************************************)
C3_TestShotsResolved ==
    \A i \in CallsTo("ClassSplitter") :
        /\ log[i].num_train_per_class = call.shots
        /\ log[i].num_test_per_class # None
        /\ call.test_shots = None => log[i].num_test_per_class = call.shots
        /\ call.test_shots # None => log[i].num_test_per_class = call.test_shots

C3_Witness ==
    /\ call.test_shots = None
    /\ call.shots = PyInt(2)
    /\ \E i \in CallsTo("ClassSplitter") : log[i].num_test_per_class = PyInt(2)

(***************************************************************************)
(* C4: after default resolution transform, target_transform and            *)
(* class_augmentations are all present; an omitted key holds the entry of  *)
(* the defaults mapping when it has the key and the fixed fallback         *)
(* (NumpyToTorch(), Categorical(effective ways), None) otherwise, so       *)
(* covertype and letter always use the fallbacks; and the constructor is   *)
(* passed exactly this configuration.                                      *)
(***************************************************************************)
C4_DefaultsResolved ==
    /\ Resolved =>
          /\ DOMAIN frame.kwargs = DOMAIN call.kwargs \cup ResolvedKeys
          /\ \A k \in DOMAIN frame.kwargs : frame.kwargs[k] = ExpectedOption(k)
    /\ \A i \in CallsTo("klass") :
          /\ ResolvedKeys \subseteq DOMAIN log[i].kwargs
          /\ \A k \in DOMAIN log[i].kwargs : log[i].kwargs[k] = ExpectedOption(k)
          /\ call.entry \in EntryPoints =>
                \A k \in ResolvedKeys \ DOMAIN call.kwargs :
                    log[i].kwargs[k] = FixedFallback(k)

C4_Witness ==
    /\ call.entry = "helper_with_default_tabular"
    /\ call.kwargs = EmptyDict
    /\ call.defaults # None
    /\ DOMAIN call.defaults = {"target_transform"}
    /\ \E i \in CallsTo("klass") :
          /\ log[i].kwargs["transform"] = NumpyToTorch
          /\ log[i].kwargs["target_transform"] = Obj("default_target_transform")
          /\ log[i].kwargs["class_augmentations"] = None

(***************************************************************************)
(* C5: covertype and letter emit the split-size warning exactly when       *)
(* ways > 3, then enter the builder with defaults=None and the caller's    *)
(* folder, shots, ways, shuffle, test_shots, seed and extra options; the   *)
(* entry point itself never aborts the call.                               *)
(***************************************************************************)
C5_SplitSizeWarning ==
    call.entry \in EntryPoints =>
        /\ pc = "entry" => warns = <<>>
        /\ pc # "entry" => WarnCount("split_size") = (IF call.ways.n > 3 THEN 1 ELSE 0)
        /\ pc = "resolve" =>
              frame = [active |-> TRUE,
                       klass |-> IF call.entry = "covertype" THEN "Covertype" ELSE "Letter",
                       folder |-> call.folder, shots |-> call.shots, ways |-> call.ways,
                       shuffle |-> call.shuffle, test_shots |-> call.test_shots,
                       seed |-> call.seed, defaults |-> None, kwargs |-> call.kwargs]
        /\ pc = "raised" => error.at # "entry"

C5_Witness ==
    /\ call.entry = "letter"
    /\ call.ways = PyInt(5)
    /\ pc = "done"
    /\ WarnCount("split_size") = 1

C7_SeedForwarded ==
    \A i \in CallsTo("seed") :
        /\ log[i].seed = call.seed
        /\ call.seed = None => log[i].seed # PyInt(0)
        /\ call.seed = PyInt(0) => log[i].seed # None

C7_Witness ==
    /\ call.seed = None
    /\ \E i \in CallsTo("seed") : log[i].seed = None

(***************************************************************************)
(* C8: the collaborator calls of one build are, in this order, one         *)
(* construction (after default resolution), one wrapping of the            *)
(* constructed dataset, one seed call on the wrapped dataset; the wrapped  *)
(* dataset is what is returned.                                            *)
(***************************************************************************)
C8_FixedOrder ==
    /\ IsPrefix(LogOps, <<"klass", "ClassSplitter", "seed">>)
    /\ pc \in {"entry", "resolve", "construct"} => log = <<>>
    /\ pc = "wrap" => Len(log) = 1
    /\ pc = "seed" => Len(log) = 2
    /\ pc \in {"return", "done"} => Len(log) = 3
    /\ \A i \in CallsTo("klass") : log[i].kwargs = frame.kwargs /\ Resolved
    /\ \A i \in CallsTo("ClassSplitter") : log[i].dataset = Returned(1)
    /\ \A i \in CallsTo("seed") : log[i].target = Returned(2)
    /\ pc = "done" <=> result # NoValue
    /\ pc = "done" => result = Returned(2)

C8_Witness ==
    /\ pc = "done"
    /\ LogOps = <<"klass", "ClassSplitter", "seed">>
    /\ result = Returned(2)

(***************************************************************************)
(* C9: test_shots=0 is a set value: ClassSplitter gets                     *)
(* num_test_per_class = 0, not shots.                                      *)
(***************************************************************************)
C9_ZeroTestShotsKept ==
    call.test_shots = PyInt(0) =>
        \A i \in CallsTo("ClassSplitter") :
            /\ log[i].num_test_per_class = PyInt(0)
            /\ log[i].num_test_per_class # log[i].num_train_per_class

C9_Witness ==
    /\ call.test_shots = PyInt(0)
    /\ call.shots = PyInt(1)
    /\ pc = "done"
    /\ CallsTo("ClassSplitter") # {}

(***************************************************************************)
(* C10: the split-size warning is decided on the caller's ways before the  *)
(* num_classes_per_task override: with both given, the warnings are the    *)
(* split-size warning (only if ways > 3) followed by the ways-ignored      *)
(* warning, while the effective number of classes is num_classes_per_task. *)
(***************************************************************************)
C10_WarningOnCallerWays ==
    (call.entry \in EntryPoints /\ HasOverride /\ Resolved) =>
        /\ frame.ways = call.kwargs["num_classes_per_task"]
        /\ call.ways.n > 3 => warns = <<SplitSizeWarning(call.ways), WaysIgnoredWarning>>
        /\ call.ways.n <= 3 => warns = <<WaysIgnoredWarning>>

C10_Witness ==
    /\ call.entry = "covertype"
    /\ call.ways = PyInt(5)
    /\ HasOverride
    /\ Resolved
    /\ frame.ways = PyInt(2)
    /\ WarnCount("split_size") = 1

C10_WitnessNoWarning ==
    /\ call.entry = "covertype"
    /\ call.ways = PyInt(2)
    /\ HasOverride
    /\ Resolved
    /\ frame.ways = PyInt(5)
    /\ WarnCount("split_size") = 0

====
